---- MODULE Spec2Model ----
(***************************************************************************)
(* A model of the tabbed text editor of src/app.py (class TextEditor).     *)
(*                                                                         *)
(* Strings (buffer contents, tab labels, paths) are sequences of           *)
(* one-character strings.  A tab is identified by the number n of its tab  *)
(* container, the n-th ttk.Frame created under the notebook; tkinter names *)
(* it .!frame.!notebook.!frame<n> and its text area ...!frame<n>.!text, so *)
(* str(text_area), the key used in text_contents, is determined by n.      *)
(*                                                                         *)
(* The file system and the file dialogs are those of a POSIX platform:     *)
(* '/' separates path components, os.linesep is "\n", and '*' may occur in *)
(* a file name.                                                            *)
(*                                                                         *)
(* Every method of TextEditor is an operator from the state before the     *)
(* call (a record, App) to the state after it; an action of Next commits   *)
(* the result of one command.  A property of a command is stated of the    *)
(* operator applied in every reachable state.                              *)
(***************************************************************************)
EXTENDS Integers, Sequences, FiniteSets, TLC

\* Bounds of the model.
MaxCreated == 2     \* tab containers created in one session
MaxLen == 2         \* characters a user types into one buffer

VARIABLES
    alive,          \* the Tk root window exists (until self.destroy())
    tabs,           \* notebook.tabs(): the open tab containers, in order
    current,        \* notebook.select(): the selected tab container (0: none)
    label,          \* notebook.tab(t)['text'] of every open tab
    text,           \* the stored characters of every open tab's tk.Text
    text_contents,  \* self.text_contents: str(text_area) -> hash
    nextId,         \* number of the next tab container to be created
    fs,             \* the regular files that commands can write
    base            \* history: the title last given to each open tab

vars == <<alive, tabs, current, label, text, text_contents, nextId, fs, base>>

----------------------------------------------------------------------------
\* Characters and strings

Star == "*"
Untitled == <<"U", "n", "t", "i", "t", "l", "e", "d">>
DefaultExtension == <<".", "t", "x", "t">>

RECURSIVE Basename(_)
\* os.path.basename: what follows the last '/'.
Basename(p) ==
    IF p = <<>> THEN <<>>
    ELSE IF p[Len(p)] = "/" THEN <<>>
    ELSE Append(Basename(SubSeq(p, 1, Len(p) - 1)), p[Len(p)])

HashBase == 4

CharCode(c) ==
    CASE c = "x" -> 1
      [] c = "\n" -> 2
      [] c = "\r" -> 3

RECURSIVE hash(_)
\* hash() of a str: a function of the characters, 0 for the empty string.
\* Within the bounds of the model distinct contents have distinct hashes.
hash(s) ==
    IF s = <<>> THEN 0
    ELSE hash(SubSeq(s, 1, Len(s) - 1)) * HashBase + CharCode(s[Len(s)])

----------------------------------------------------------------------------
\* The tk.Text widget: it always ends with a newline of its own.

EmptyText == <<"\n">>

\* text_area.insert('end', content): before the widget's final newline.
TextInsertEnd(w, content) == SubSeq(w, 1, Len(w) - 1) \o content \o <<"\n">>

\* text_area.get('1.0', 'end-1c'): everything but the final newline.
TextGet(w) == SubSeq(w, 1, Len(w) - 1)

TypeChars == {"x"}

\* Line ends that a pasted selection can hold.
PasteChars == {"\r", "\n"}

\* What one user edit can make of a widget: a character typed at the end,
\* or the last character deleted.
TextEdits(w) ==
    (IF Len(TextGet(w)) < MaxLen
     THEN {TextInsertEnd(w, <<c>>) : c \in TypeChars} ELSE {})
    \cup (IF Len(TextGet(w)) > 0
          THEN {TextInsertEnd(SubSeq(w, 1, Len(w) - 1), <<>>)} ELSE {})

----------------------------------------------------------------------------
\* Files and file dialogs

NotePath == <<"/", "n", ".", "t", "x", "t">>    \* written by Save
StarsPath == <<"/", "*", "*">>                   \* exists, never written
NoDirPath == <<"/", "q", "/", "n", ".", "t", "x", "t">>  \* /q does not exist
DeniedPath == <<"/", "r", ".", "t", "x", "t">>   \* exists, no permission
EmptyTuple == <<"()">>                           \* the dialog's () result
NoFile == <<"ENOENT">>                           \* FileNotFoundError
NoAccess == <<"EACCES">>                         \* PermissionError

WritablePaths == {NotePath}
StarsContent == <<"x">>

\* filedialog.askopenfilename(): '' or () when cancelled, else a path.
OpenDialog == {<<>>, EmptyTuple, NotePath, StarsPath, NoDirPath, DeniedPath}

\* filedialog.asksaveasfilename(defaultextension='.txt'): the extension is
\* added to a typed name that has none.
TypedNames == {<<"/", "n">>, <<"/", "q", "/", "n">>, DeniedPath}
WithExtension(p) ==
    IF \E i \in 1..Len(p) : p[i] = "." THEN p ELSE p \o DefaultExtension
SaveDialog == {<<>>, EmptyTuple} \cup {WithExtension(p) : p \in TypedNames}

RECURSIVE UniversalNewlines(_)
\* open(file_path, 'r').read(): "\r\n" and "\r" are read as "\n".
UniversalNewlines(s) ==
    IF s = <<>> THEN <<>>
    ELSE IF s[1] = "\r" /\ Len(s) > 1 /\ s[2] = "\n"
         THEN <<"\n">> \o UniversalNewlines(SubSeq(s, 3, Len(s)))
    ELSE IF s[1] = "\r" THEN <<"\n">> \o UniversalNewlines(SubSeq(s, 2, Len(s)))
    ELSE <<s[1]>> \o UniversalNewlines(SubSeq(s, 2, Len(s)))

LineSep == <<"\n">>

RECURSIVE WriteNewlines(_)
\* open(file_path, 'w').write(content): "\n" is written as os.linesep.
WriteNewlines(s) ==
    IF s = <<>> THEN <<>>
    ELSE (IF s[1] = "\n" THEN LineSep ELSE <<s[1]>>)
         \o WriteNewlines(SubSeq(s, 2, Len(s)))

\* The bytes of the file at p, or the exception open(p, 'r') raises.
FileAt(S, p) ==
    IF p \in WritablePaths THEN S.fs[p]
    ELSE IF p = StarsPath THEN StarsContent
    ELSE IF p = DeniedPath THEN NoAccess
    ELSE NoFile

----------------------------------------------------------------------------
\* The state the methods of TextEditor act on, as one record.  A method
\* returns the state it leaves, with what the user saw of the call: asked,
\* the number of confirmation dialogs it showed, and outcome, "ok",
\* "cancelled" (the '... Operation Cancelled.' message was printed) or
\* "raised" (an exception left the handler and Tk reported it).

App ==
    [alive |-> alive, tabs |-> tabs, current |-> current, label |-> label,
     text |-> text, text_contents |-> text_contents, nextId |-> nextId,
     fs |-> fs, base |-> base, asked |-> 0, outcome |-> "ok"]

\* str(text_area): the widget path name of tab container t's text area.
WidgetName(t) == t

\* The position of tab container t in notebook.tabs().
IndexOf(seq, t) == CHOOSE i \in 1..Len(seq) : seq[i] = t

Remove(seq, i) == SubSeq(seq, 1, i - 1) \o SubSeq(seq, i + 1, Len(seq))

Restrict(f, D) == [x \in D |-> f[x]]

\* __init__ up to the first create_file(): an empty notebook.
Constructed ==
    [alive |-> TRUE, tabs |-> <<>>, current |-> 0, label |-> <<>>,
     text |-> <<>>, text_contents |-> <<>>, nextId |-> 1,
     fs |-> [p \in WritablePaths |-> NoFile], base |-> <<>>,
     asked |-> 0, outcome |-> "ok"]

\* Mutant of create_file: the stored fingerprint is that of the default
\* content, not of the content inserted.
create_file_HashOfDefault(S, content, title) ==
    LET t == S.nextId IN
    [S EXCEPT !.nextId = t + 1,
              !.text = (t :> TextInsertEnd(EmptyText, content)) @@ S.text,
              !.tabs = Append(S.tabs, t),
              !.label = (t :> title) @@ S.label,
              !.base = (t :> title) @@ S.base,
              !.current = t,
              !.text_contents = (WidgetName(t) :> hash(<<>>)) @@ S.text_contents]

\* create_file(content, title)
create_file(S, content, title) ==
    LET t == S.nextId IN
    [S EXCEPT !.nextId = t + 1,
              !.text = (t :> TextInsertEnd(EmptyText, content)) @@ S.text,
              !.tabs = Append(S.tabs, t),
              !.label = (t :> title) @@ S.label,
              !.base = (t :> title) @@ S.base,
              !.current = t,
              !.text_contents = (WidgetName(t) :> hash(content)) @@ S.text_contents]

\* get_text_area(): the text area of the selected tab container.
get_text_area(S) == S.current

\* is_current_tab_unsaved()
is_current_tab_unsaved(S) ==
    LET text_area == get_text_area(S)
        content == TextGet(S.text[text_area])
    IN hash(content) # S.text_contents[WidgetName(text_area)]

\* Mutant of forget: no other tab is selected in place of the removed one.
forget_NoSelect(S, t) ==
    LET i == IndexOf(S.tabs, t)
        rest == Remove(S.tabs, i)
        open == {rest[j] : j \in 1..Len(rest)}
    IN [S EXCEPT !.tabs = rest,
                 !.label = Restrict(S.label, open),
                 !.text = Restrict(S.text, open),
                 !.base = Restrict(S.base, open),
                 !.current = IF S.current # t THEN S.current ELSE 0]

\* notebook.forget(t): the tab is removed; when it was the selected one the
\* notebook selects the next tab, or the previous one when there is no next.
forget(S, t) ==
    LET i == IndexOf(S.tabs, t)
        rest == Remove(S.tabs, i)
        open == {rest[j] : j \in 1..Len(rest)}
    IN [S EXCEPT !.tabs = rest,
                 !.label = Restrict(S.label, open),
                 !.text = Restrict(S.text, open),
                 !.base = Restrict(S.base, open),
                 !.current = IF S.current # t THEN S.current
                             ELSE IF i <= Len(rest) THEN rest[i]
                             ELSE IF i > 1 THEN rest[i - 1]
                             ELSE 0]

\* Mutant of close_current_tab: no default tab replaces the last one.
close_current_tab_NoDefault(S, answer) ==
    LET tab_container_name == S.current
        unsaved == is_current_tab_unsaved(S)
        A == [S EXCEPT !.asked = IF unsaved THEN S.asked + 1 ELSE S.asked]
    IN IF unsaved /\ ~answer THEN A
       ELSE forget(A, tab_container_name)

\* Mutant of close_current_tab: confirm_close() is called before the tab is
\* looked at (if not self.confirm_close() and self.is_current_tab_unsaved()).
close_current_tab_AlwaysAsks(S, answer) ==
    LET tab_container_name == S.current
        unsaved == is_current_tab_unsaved(S)
        A == [S EXCEPT !.asked = S.asked + 1]
    IN IF ~answer /\ unsaved THEN A
       ELSE LET F == forget(A, tab_container_name)
            IN IF Len(F.tabs) = 0 THEN create_file(F, <<>>, Untitled) ELSE F

\* Mutant of close_current_tab: the answer is not used, the tab is closed.
close_current_tab_IgnoresAnswer(S, answer) ==
    LET tab_container_name == S.current
        unsaved == is_current_tab_unsaved(S)
        A == [S EXCEPT !.asked = IF unsaved THEN S.asked + 1 ELSE S.asked]
        F == forget(A, tab_container_name)
    IN IF Len(F.tabs) = 0 THEN create_file(F, <<>>, Untitled) ELSE F

\* Mutant of close_current_tab: the first tab of the notebook is removed.
close_current_tab_ClosesFirst(S, answer) ==
    LET tab_container_name == S.tabs[1]
        unsaved == is_current_tab_unsaved(S)
        A == [S EXCEPT !.asked = IF unsaved THEN S.asked + 1 ELSE S.asked]
    IN IF unsaved /\ ~answer THEN A
       ELSE LET F == forget(A, tab_container_name)
            IN IF Len(F.tabs) = 0 THEN create_file(F, <<>>, Untitled) ELSE F

\* Mutant of close_current_tab: the entry of the closed tab is deleted from
\* text_contents.
close_current_tab_ForgetsEntry(S, answer) ==
    LET tab_container_name == S.current
        unsaved == is_current_tab_unsaved(S)
        A == [S EXCEPT !.asked = IF unsaved THEN S.asked + 1 ELSE S.asked]
    IN IF unsaved /\ ~answer THEN A
       ELSE LET F == forget(A, tab_container_name)
                D == [F EXCEPT !.text_contents =
                        Restrict(F.text_contents,
                                 DOMAIN F.text_contents \ {WidgetName(tab_container_name)})]
            IN IF Len(D.tabs) = 0 THEN create_file(D, <<>>, Untitled) ELSE D

\* close_current_tab(); confirm_close() returns answer when it is called.
close_current_tab(S, answer) ==
    LET tab_container_name == S.current
        unsaved == is_current_tab_unsaved(S)
        A == [S EXCEPT !.asked = IF unsaved THEN S.asked + 1 ELSE S.asked]
    IN IF unsaved /\ ~answer THEN A
       ELSE LET F == forget(A, tab_container_name)
            IN IF Len(F.tabs) = 0 THEN create_file(F, <<>>, Untitled) ELSE F

\* Mutant of check_for_changes: a tab found changed has its fingerprint
\* stored anew.
check_for_changes_Rehash(S) ==
    LET text_area == get_text_area(S)
        content == TextGet(S.text[text_area])
        tab_label == S.label[S.current]
    IN IF tab_label = <<>> THEN [S EXCEPT !.outcome = "raised"]
       ELSE IF hash(content) # S.text_contents[WidgetName(text_area)]
       THEN IF tab_label[Len(tab_label)] # Star
            THEN [S EXCEPT !.label[S.current] = Append(tab_label, Star),
                           !.text_contents[WidgetName(text_area)] = hash(content)]
            ELSE S
       ELSE IF tab_label[Len(tab_label)] = Star
            THEN [S EXCEPT !.label[S.current] = SubSeq(tab_label, 1, Len(tab_label) - 1)]
            ELSE S

\* Mutant of check_for_changes: the label read and written is that of the
\* first tab of the notebook.
check_for_changes_FirstTab(S) ==
    LET text_area == get_text_area(S)
        content == TextGet(S.text[text_area])
        tab_label == S.label[S.tabs[1]]
    IN IF tab_label = <<>> THEN [S EXCEPT !.outcome = "raised"]
       ELSE IF hash(content) # S.text_contents[WidgetName(text_area)]
       THEN IF tab_label[Len(tab_label)] # Star
            THEN [S EXCEPT !.label[S.tabs[1]] = Append(tab_label, Star)]
            ELSE S
       ELSE IF tab_label[Len(tab_label)] = Star
            THEN [S EXCEPT !.label[S.tabs[1]] = SubSeq(tab_label, 1, Len(tab_label) - 1)]
            ELSE S

\* check_for_changes(); tab_label[-1] raises IndexError on an empty label.
check_for_changes(S) ==
    LET text_area == get_text_area(S)
        content == TextGet(S.text[text_area])
        tab_label == S.label[S.current]
    IN IF tab_label = <<>> THEN [S EXCEPT !.outcome = "raised"]
       ELSE IF hash(content) # S.text_contents[WidgetName(text_area)]
       THEN IF tab_label[Len(tab_label)] # Star
            THEN [S EXCEPT !.label[S.current] = Append(tab_label, Star)]
            ELSE S
       ELSE IF tab_label[Len(tab_label)] = Star
            THEN [S EXCEPT !.label[S.current] = SubSeq(tab_label, 1, Len(tab_label) - 1)]
            ELSE S

\* Mutant of save_file: text_contents is not updated.
save_file_StaleHash(S, file_path) ==
    IF file_path = EmptyTuple THEN [S EXCEPT !.outcome = "raised"]
    ELSE LET filename == Basename(file_path)
             text_area == get_text_area(S)
             content == TextGet(S.text[text_area])
         IN IF file_path = <<>> \/ file_path = NoDirPath
            THEN [S EXCEPT !.outcome = "cancelled"]
            ELSE IF file_path = DeniedPath
            THEN [S EXCEPT !.outcome = "raised"]
            ELSE [S EXCEPT !.fs[file_path] = WriteNewlines(content),
                           !.label[S.current] = filename,
                           !.base[S.current] = filename]

\* Mutant of save_file: the tab is renamed before the file is written.
save_file_RenamesFirst(S, file_path) ==
    IF file_path = EmptyTuple THEN [S EXCEPT !.outcome = "raised"]
    ELSE LET filename == Basename(file_path)
             text_area == get_text_area(S)
             content == TextGet(S.text[text_area])
             N == [S EXCEPT !.label[S.current] = filename,
                            !.base[S.current] = filename]
         IN IF file_path = <<>> \/ file_path = NoDirPath
            THEN [N EXCEPT !.outcome = "cancelled"]
            ELSE IF file_path = DeniedPath
            THEN [N EXCEPT !.outcome = "raised"]
            ELSE [N EXCEPT !.fs[file_path] = WriteNewlines(content),
                           !.text_contents[WidgetName(text_area)] = hash(content)]

\* save_file(); file_path is what the save dialog returned.
save_file(S, file_path) ==
    IF file_path = EmptyTuple THEN [S EXCEPT !.outcome = "raised"]  \* TypeError
    ELSE LET filename == Basename(file_path)
             text_area == get_text_area(S)
             content == TextGet(S.text[text_area])
         IN IF file_path = <<>> \/ file_path = NoDirPath      \* FileNotFoundError
            THEN [S EXCEPT !.outcome = "cancelled"]
            ELSE IF file_path = DeniedPath                    \* PermissionError
            THEN [S EXCEPT !.outcome = "raised"]
            ELSE [S EXCEPT !.fs[file_path] = WriteNewlines(content),
                           !.label[S.current] = filename,
                           !.base[S.current] = filename,
                           !.text_contents[WidgetName(text_area)] = hash(content)]

\* open_file(); file_path is what the open dialog returned.
open_file(S, file_path) ==
    IF file_path = EmptyTuple THEN [S EXCEPT !.outcome = "raised"]  \* TypeError
    ELSE LET filename == Basename(file_path)
         IN IF file_path = <<>> \/ FileAt(S, file_path) = NoFile    \* FileNotFoundError
            THEN [S EXCEPT !.outcome = "cancelled"]
            ELSE IF FileAt(S, file_path) = NoAccess           \* PermissionError
            THEN [S EXCEPT !.outcome = "raised"]
            ELSE create_file(S, UniversalNewlines(FileAt(S, file_path)), filename)

RECURSIVE AnyUnsaved(_, _)
\* The loop of confirm_quit over notebook.tabs(), from position i on.
AnyUnsaved(S, i) ==
    IF i > Len(S.tabs) THEN FALSE
    ELSE LET text_area == S.tabs[i]
             content == TextGet(S.text[text_area])
         IN IF hash(content) # S.text_contents[WidgetName(text_area)] THEN TRUE
            ELSE AnyUnsaved(S, i + 1)

\* self.destroy(): the window and every widget in it are gone.
destroy(S) ==
    [S EXCEPT !.alive = FALSE, !.tabs = <<>>, !.current = 0, !.label = <<>>,
              !.text = <<>>, !.base = <<>>]

\* Mutant of confirm_quit: only the current tab is looked at.
confirm_quit_CurrentOnly(S, answer) ==
    LET unsaved == is_current_tab_unsaved(S)
        A == [S EXCEPT !.asked = IF unsaved THEN S.asked + 1 ELSE S.asked]
    IN IF unsaved /\ ~answer THEN A ELSE destroy(A)

\* Mutant of confirm_quit: the answer is not used, the window is destroyed.
confirm_quit_IgnoresAnswer(S, answer) ==
    LET unsaved == AnyUnsaved(S, 1)
        A == [S EXCEPT !.asked = IF unsaved THEN S.asked + 1 ELSE S.asked]
    IN destroy(A)

\* confirm_quit(); confirm_close() returns answer when it is called.
confirm_quit(S, answer) ==
    LET unsaved == AnyUnsaved(S, 1)
        A == [S EXCEPT !.asked = IF unsaved THEN S.asked + 1 ELSE S.asked]
    IN IF unsaved /\ ~answer THEN A ELSE destroy(A)

\* show_about_info()
show_about_info(S) == S

----------------------------------------------------------------------------
\* The commands, as the user and the event loop run them.

Commit(S) ==
    /\ alive' = S.alive
    /\ tabs' = S.tabs
    /\ current' = S.current
    /\ label' = S.label
    /\ text' = S.text
    /\ text_contents' = S.text_contents
    /\ nextId' = S.nextId
    /\ fs' = S.fs
    /\ base' = S.base

\* The session may create MaxCreated tab containers.
WithinBounds(S) == S.nextId <= MaxCreated + 1

\* editor = TextEditor()
Init ==
    LET S == create_file(Constructed, <<>>, Untitled) IN
    /\ alive = S.alive
    /\ tabs = S.tabs
    /\ current = S.current
    /\ label = S.label
    /\ text = S.text
    /\ text_contents = S.text_contents
    /\ nextId = S.nextId
    /\ fs = S.fs
    /\ base = S.base

\* File > New, Ctrl+N
New ==
    /\ alive
    /\ LET S == create_file(App, <<>>, Untitled) IN
       WithinBounds(S) /\ Commit(S)

\* File > Open, Ctrl+O
Open ==
    /\ alive
    /\ \E file_path \in OpenDialog :
         LET S == open_file(App, file_path) IN
         WithinBounds(S) /\ Commit(S)

\* File > Save, Ctrl+S
Save ==
    /\ alive
    /\ \E file_path \in SaveDialog :
         Commit(save_file(App, file_path))

\* File > Close Tab, Ctrl+Q
CloseTab ==
    /\ alive
    /\ \E answer \in BOOLEAN :
         LET S == close_current_tab(App, answer) IN
         WithinBounds(S) /\ Commit(S)

\* File > Exit
Exit ==
    /\ alive
    /\ \E answer \in BOOLEAN :
         Commit(confirm_quit(App, answer))

\* Help > About
About ==
    /\ alive
    /\ Commit(show_about_info(App))

\* <KeyPress>: the Text class binding has applied the key to the selected
\* tab's text area (an edit, or nothing for a key that edits nothing), then
\* the binding of line 57 runs check_for_changes().
KeyPress ==
    /\ alive
    /\ \E w \in TextEdits(text[current]) \cup {text[current]} :
         Commit(check_for_changes([App EXCEPT !.text[current] = w]))

\* The user clicks on the tab of another open tab container.
SelectTab ==
    /\ alive
    /\ \E i \in 1..Len(tabs) :
         /\ tabs[i] # current
         /\ Commit([App EXCEPT !.current = tabs[i]])

Next ==
    \/ New
    \/ Open
    \/ Save
    \/ CloseTab
    \/ Exit
    \/ About
    \/ KeyPress
    \/ SelectTab

Spec == Init /\ [][Next]_vars

\* The user pastes a selection into the selected tab's text area with the
\* mouse: the Text class binding inserts it, and no <KeyPress> is delivered,
\* so check_for_changes() does not run.
Paste ==
    /\ alive
    /\ Len(TextGet(text[current])) < MaxLen
    /\ \E c \in PasteChars :
         Commit([App EXCEPT !.text[current] = TextInsertEnd(text[current], <<c>>)])

NextPaste == Next \/ Paste

\* The sessions in which text is also pasted.
PasteSpec == Init /\ [][NextPaste]_vars

----------------------------------------------------------------------------
\* Vocabulary of the properties

OpenTabs(S) == {S.tabs[i] : i \in 1..Len(S.tabs)}

\* A tab is dirty when the fingerprint of its buffer is not the stored one.
IsDirty(S, t) == hash(TextGet(S.text[t])) # S.text_contents[WidgetName(t)]

Buffer(S, t) == TextGet(S.text[t])

\* The tabs, their order, the selection, and every tab's label, buffer and
\* saved fingerprint are the same in R and S.
SameTabs(R, S) ==
    /\ R.tabs = S.tabs
    /\ R.current = S.current
    /\ R.label = S.label
    /\ R.text = S.text
    /\ R.text_contents = S.text_contents

\* The dialog was cancelled.
Cancelled(p) == p = <<>> \/ p = EmptyTuple

\* Open cannot read p: the dialog was cancelled, or the file is missing or
\* unreadable.
OpenFails(S, p) == Cancelled(p) \/ FileAt(S, p) \in {NoFile, NoAccess}

\* Save cannot write p: the dialog was cancelled, or the directory is
\* missing, or the file is not writable.
SaveFails(p) == Cancelled(p) \/ p \in {NoDirPath, DeniedPath}

----------------------------------------------------------------------------
\* C1: while the application runs, at every command boundary at least one
\* tab is open and exactly one open tab is the current tab.
C1_OneCurrentTab ==
    alive =>
        /\ Len(tabs) >= 1
        /\ Cardinality({i \in 1..Len(tabs) : tabs[i] = current}) = 1
        /\ Cardinality(OpenTabs(App)) = Len(tabs)

\* C1 witness: the first tab has been closed and a tab opened from a file is
\* the only one left.
C1_Witness ==
    /\ alive
    /\ tabs = <<2>>
    /\ current = 2
    /\ base[2] = Basename(StarsPath)

\* C2: every step that creates a tab (New, Open, the default tab of Close
\* Tab) leaves the new tab open and not dirty.
C2_FreshTabClean ==
    [][nextId' # nextId =>
        /\ \E i \in 1..Len(tabs') : tabs'[i] = nextId
        /\ hash(TextGet(text'[nextId])) = text_contents'[WidgetName(nextId)]]_vars

\* C2 witness: a tab holds the non-empty content of the file it was opened
\* from and is not dirty.
C2_Witness ==
    /\ alive
    /\ \E t \in OpenTabs(App) :
         /\ base[t] = Basename(StarsPath)
         /\ Buffer(App, t) = StarsContent
         /\ Buffer(App, t) # <<>>
         /\ ~IsDirty(App, t)

\* C3: a Save that succeeds with path p leaves the current tab not dirty
\* and labelled exactly basename(p), whatever its label and dirtiness were.
C3_SaveCleansAndRenames ==
    alive =>
        \A p \in SaveDialog :
            LET R == save_file(App, p) IN
            R.outcome = "ok" =>
                /\ R.label[R.current] = Basename(p)
                /\ p = NotePath => R.label[R.current] = <<"n", ".", "t", "x", "t">>
                /\ ~IsDirty(R, R.current)
                /\ R.current = current

\* C3 witness: the current tab's non-empty buffer has been saved to NotePath;
\* the tab carries the file's name and is not dirty.
C3_Witness ==
    /\ alive
    /\ Buffer(App, current) # <<>>
    /\ fs[NotePath] = WriteNewlines(Buffer(App, current))
    /\ label[current] = Basename(NotePath)
    /\ ~IsDirty(App, current)

\* C4: Close Tab on the only open tab, when it proceeds (the tab is clean or
\* the user answers Yes), leaves exactly one tab: a new one, empty,
\* labelled "Untitled", not dirty, and current.
C4_LastTabReplaced ==
    (alive /\ Len(tabs) = 1) =>
        \A answer \in BOOLEAN :
            LET R == close_current_tab(App, answer) IN
            (~IsDirty(App, current) \/ answer) =>
                /\ Len(R.tabs) = 1
                /\ R.tabs[1] \notin OpenTabs(App)
                /\ R.tabs[1] \notin DOMAIN text_contents
                /\ Buffer(R, R.tabs[1]) = <<>>
                /\ R.label[R.tabs[1]] = Untitled
                /\ ~IsDirty(R, R.tabs[1])
                /\ R.current = R.tabs[1]

\* C4 witness: the only tab was dirty, and closing it with the answer Yes
\* is possible within the bounds.
C4_Witness ==
    /\ alive
    /\ Len(tabs) = 1
    /\ IsDirty(App, current)
    /\ WithinBounds(close_current_tab(App, TRUE))
    /\ close_current_tab(App, TRUE).tabs # tabs

\* C5: Close Tab on a clean current tab removes it and shows no
\* confirmation; on a dirty current tab it shows exactly one.
C5_GateOnlyWhenDirty ==
    alive =>
        \A answer \in BOOLEAN :
            LET R == close_current_tab(App, answer) IN
            IF IsDirty(App, current)
            THEN R.asked = 1
            ELSE R.asked = 0 /\ current \notin OpenTabs(R)

\* C5 witness: two tabs are open, the current one clean and the other
\* dirty; closing the current one asks nothing.
C5_Witness ==
    /\ alive
    /\ Len(tabs) = 2
    /\ ~IsDirty(App, current)
    /\ \E t \in OpenTabs(App) : t # current /\ IsDirty(App, t)
    /\ close_current_tab(App, FALSE).asked = 0

\* C6: Close Tab on a dirty current tab, answered No, changes nothing.
C6_DeclinedCloseChangesNothing ==
    (alive /\ IsDirty(App, current)) =>
        LET R == close_current_tab(App, FALSE) IN
        /\ SameTabs(R, App)
        /\ R.alive /\ R.fs = fs /\ R.nextId = nextId

\* C6 witness: the current one of two tabs is dirty and shows the marker,
\* and the user was asked.
C6_Witness ==
    /\ alive
    /\ Len(tabs) = 2
    /\ IsDirty(App, current)
    /\ label[current] = Append(Untitled, Star)
    /\ close_current_tab(App, FALSE).asked = 1

\* C7: with at least one dirty tab open, current or not, Exit shows exactly
\* one confirmation; answered No, the application stays open and nothing
\* changes.
C7_ExitAsksOnce ==
    (alive /\ \E t \in OpenTabs(App) : IsDirty(App, t)) =>
        /\ \A answer \in BOOLEAN : confirm_quit(App, answer).asked = 1
        /\ LET R == confirm_quit(App, FALSE) IN
           R.alive /\ SameTabs(R, App)

\* C7 witness: two tabs are open and both are dirty.
C7_Witness ==
    /\ alive
    /\ Len(tabs) = 2
    /\ \A t \in OpenTabs(App) : IsDirty(App, t)
    /\ confirm_quit(App, FALSE).asked = 1

C9_HandlerIdempotent ==
    alive =>
        LET R1 == check_for_changes(App)
            R2 == check_for_changes(R1)
        IN R2.label = R1.label

\* C10: after the keystroke handler the current tab's label is its base
\* label followed by '*' when the tab is dirty, and exactly its base label
\* when it is not.
C10_LabelFollowsDirtiness ==
    alive =>
        LET R == check_for_changes(App) IN
        R.label[current] = IF IsDirty(App, current)
                           THEN Append(base[current], Star)
                           ELSE base[current]

\* C11: an Open or a Save that does not succeed leaves the tabs, their
\* order, the current tab and every label, buffer and saved fingerprint as
\* they were, and creates no tab.
C11_FailedFileCommandChangesNothing ==
    alive =>
        /\ \A p \in OpenDialog :
             LET R == open_file(App, p) IN
             OpenFails(App, p) => SameTabs(R, App) /\ R.nextId = nextId
        /\ \A p \in SaveDialog :
             LET R == save_file(App, p) IN
             SaveFails(p) => SameTabs(R, App) /\ R.nextId = nextId

\* C11 witness: with two tabs open and the current one dirty and marked,
\* Open of the missing NotePath and Save to DeniedPath both fail.
C11_Witness ==
    /\ alive
    /\ Len(tabs) = 2
    /\ IsDirty(App, current)
    /\ label[current] = Append(Untitled, Star)
    /\ OpenFails(App, NotePath)
    /\ open_file(App, NotePath).outcome = "cancelled"
    /\ save_file(App, DeniedPath).outcome = "raised"

\* C12: Open of a chosen path that is missing or unreadable ends in an
\* outcome that differs from the outcome of a cancelled picker (and is not a
\* success).
C12_UnreadablePathDistinctFromCancel ==
    alive =>
        \A p \in OpenDialog :
            (~Cancelled(p) /\ OpenFails(App, p)) =>
                open_file(App, p).outcome \notin {"ok", open_file(App, <<>>).outcome}

\* C13: the saved fingerprint of an open tab changes only by a successful
\* Save while that tab is current.  A keystroke (with or without an edit),
\* New, Open, a cancelled or failed Save, Close Tab, Exit answered No and
\* About leave the fingerprint of every tab that stays open as it was, and a
\* successful Save leaves that of every tab but the current one.
C13_FingerprintChangesOnlyBySave ==
    alive =>
        LET Kept(R, T) ==
                \A t \in T \cap OpenTabs(R) :
                    R.text_contents[WidgetName(t)] = text_contents[WidgetName(t)]
            All == OpenTabs(App)
        IN /\ \A w \in TextEdits(text[current]) \cup {text[current]} :
                Kept(check_for_changes([App EXCEPT !.text[current] = w]), All)
           /\ Kept(create_file(App, <<>>, Untitled), All)
           /\ \A p \in OpenDialog : Kept(open_file(App, p), All)
           /\ \A p \in SaveDialog :
                /\ Kept(save_file(App, p), All \ {current})
                /\ SaveFails(p) => Kept(save_file(App, p), All)
           /\ \A answer \in BOOLEAN : Kept(close_current_tab(App, answer), All)
           /\ Kept(confirm_quit(App, FALSE), All)
           /\ Kept(show_about_info(App), All)

\* C13 witness: a tab saved with some content is open beside the current
\* tab, which is dirty and keeps its '*' at the next keystroke; a Save of the
\* current tab would store a new fingerprint for it.
C13_Witness ==
    /\ alive
    /\ Len(tabs) = 2
    /\ current = tabs[2]
    /\ text_contents[WidgetName(tabs[1])] # hash(<<>>)
    /\ IsDirty(App, current)
    /\ check_for_changes(App).label[current] = Append(Untitled, Star)
    /\ save_file(App, NotePath).text_contents[WidgetName(current)]
         # text_contents[WidgetName(current)]

\* C14: New and a successful Open add exactly one tab, after all existing
\* tabs, and select it; the existing tabs keep their order, labels, buffers
\* and saved fingerprints.  The tab Open adds holds the content of the file
\* and is labelled with the base name of the path.
C14_NewAndOpenAppendOneTab ==
    alive =>
        LET Appended(R) ==
                /\ Len(R.tabs) = Len(tabs) + 1
                /\ SubSeq(R.tabs, 1, Len(tabs)) = tabs
                /\ R.tabs[Len(R.tabs)] \notin OpenTabs(App)
                /\ R.current = R.tabs[Len(R.tabs)]
                /\ \A t \in OpenTabs(App) :
                     /\ R.label[t] = label[t]
                     /\ R.text[t] = text[t]
                     /\ R.text_contents[WidgetName(t)] = text_contents[WidgetName(t)]
        IN /\ Appended(create_file(App, <<>>, Untitled))
           /\ \A p \in OpenDialog :
                ~OpenFails(App, p) =>
                    LET R == open_file(App, p) IN
                    /\ Appended(R)
                    /\ Buffer(R, R.current) = FileAt(App, p)
                    /\ R.label[R.current] = Basename(p)

\* C15: a successful Save of the current buffer to a path, followed by Open
\* of that path, gives a new tab whose buffer is the buffer that was saved.
C15_SaveThenOpenRoundTrip ==
    alive =>
        \A p \in SaveDialog :
            ~SaveFails(p) =>
                LET R == save_file(App, p)
                    O == open_file(R, p)
                IN /\ O.outcome = "ok"
                   /\ Buffer(O, O.current) = Buffer(App, current)

C17_KeystrokeAndSaveActOnCurrentOnly ==
    alive =>
        LET Others(R) ==
                /\ R.tabs = tabs
                /\ R.current = current
                /\ \A t \in OpenTabs(App) \ {current} :
                     /\ R.label[t] = label[t]
                     /\ R.text[t] = text[t]
                     /\ R.text_contents[WidgetName(t)] = text_contents[WidgetName(t)]
        IN /\ \A w \in TextEdits(text[current]) \cup {text[current]} :
                Others(check_for_changes([App EXCEPT !.text[current] = w]))
           /\ \A p \in SaveDialog : Others(save_file(App, p))

\* C17 witness: the first of two tabs is dirty and marked, the second is
\* current and clean; a character typed into it marks it, and a Save renames
\* it.
C17_Witness ==
    /\ alive
    /\ Len(tabs) = 2
    /\ current = tabs[2]
    /\ IsDirty(App, tabs[1])
    /\ label[tabs[1]] = Append(Untitled, Star)
    /\ ~IsDirty(App, current)
    /\ \E w \in TextEdits(text[current]) :
         check_for_changes([App EXCEPT !.text[current] = w]).label[current]
             = Append(label[current], Star)
    /\ save_file(App, NotePath).label[current] = Basename(NotePath)

\* C18: in every reachable state the current tab's label is not empty and
\* the keystroke handler completes without raising.
C18_HandlerNeverRaises ==
    alive => label[current] # <<>> /\ check_for_changes(App).outcome = "ok"

\* C19: text_contents holds one entry for every tab created in the session,
\* under a key that no other tab gets: the keys are those of the tabs created
\* so far, every open tab has its entry, no command removes an entry, a tab a
\* command creates gets a key that was not in use, and Close Tab leaves every
\* entry, that of the closed tab included, as it was.
C19_OneEntryPerCreatedTab ==
    /\ DOMAIN text_contents = {WidgetName(t) : t \in 1..(nextId - 1)}
    /\ alive =>
        LET Results ==
                {check_for_changes([App EXCEPT !.text[current] = w]) :
                    w \in TextEdits(text[current]) \cup {text[current]}}
                \cup {create_file(App, <<>>, Untitled), show_about_info(App)}
                \cup {open_file(App, p) : p \in OpenDialog}
                \cup {save_file(App, p) : p \in SaveDialog}
                \cup {close_current_tab(App, answer) : answer \in BOOLEAN}
                \cup {confirm_quit(App, answer) : answer \in BOOLEAN}
        IN /\ \A t \in OpenTabs(App) : WidgetName(t) \in DOMAIN text_contents
           /\ \A R \in Results :
                /\ DOMAIN text_contents \subseteq DOMAIN R.text_contents
                /\ \A t \in OpenTabs(R) \ OpenTabs(App) :
                     WidgetName(t) \notin DOMAIN text_contents
           /\ \A answer \in BOOLEAN :
                \A k \in DOMAIN text_contents :
                    close_current_tab(App, answer).text_contents[k] = text_contents[k]

\* C19 witness: the first tab was saved with some content and then closed;
\* the default tab that replaced it is open under a second key, and the
\* entry of the closed tab is still there.
C19_Witness ==
    /\ alive
    /\ tabs = <<2>>
    /\ nextId = 3
    /\ DOMAIN text_contents = {WidgetName(1), WidgetName(2)}
    /\ text_contents[WidgetName(1)] # hash(<<>>)
    /\ close_current_tab(App, TRUE).tabs = <<3>>

====
